---- MODULE Spec2Model ----
(***************************************************************************)
(* Burst polling loop of OPCLogger.py (OPCHandler: one session per batch)  *)
(* and of DVMonOPCLogger.py (main: one session per run).                   *)
(*                                                                         *)
(* A step of the model is one call of the program to a collaborator (the   *)
(* OPC client's connect/read/close, the tag file, time.sleep) together     *)
(* with all the code that runs up to the next such call.  The outcome of a *)
(* collaborator call (returns, raises, is interrupted by the operator) is  *)
(* chosen nondeterministically.                                            *)
(***************************************************************************)
EXTENDS Integers, Sequences, FiniteSets, TLC

\* ---------------------------------------------------------------- bounds
MaxLen == 3
MaxBatchSize == 2
MaxInterrupts == 2

Tags == {"A", "B"}

\* --maxtagsperinterval is any int: negative, zero and positive sizes
BatchSizes == -1..MaxBatchSize

RECURSIVE SeqsUpTo(_)
SeqsUpTo(n) ==
    IF n = 0 THEN {<<>>}
    ELSE LET shorter == SeqsUpTo(n - 1)
         IN  shorter \cup {Append(s, t) : s \in {x \in shorter : Len(x) = n - 1}, t \in Tags}

\* The tag lists of the model.  The program only compares tags for equality,
\* so a list whose first tag is B behaves as its renaming that starts with A.
TagLists == {s \in SeqsUpTo(MaxLen) : s = <<>> \/ s[1] = "A"}

\* ------------------------------------------------------------ timestamps
\* A timestamp string is modelled by its fields.  fmt "mdy24" is a string
\* written as mm/dd/yy HH:MM:SS, fmt "dmy12" one written as
\* DD-MM-YYYY hh:mm:ss AM/PM, fmt "text" any other string and fmt "none"
\* Python's None.
Stamp(f, mo, d, y, h, mi, s, p) ==
    [fmt |-> f, month |-> mo, day |-> d, year |-> y, hour |-> h,
     minute |-> mi, second |-> s, ampm |-> p]

None == Stamp("none", 0, 0, 0, 0, 0, 0, "")

TsAfternoon == Stamp("mdy24", 6, 24, 7, 17, 44, 43, "")
TsMidnight == Stamp("mdy24", 12, 31, 99, 0, 0, 0, "")
TsBadMonth == Stamp("mdy24", 13, 1, 7, 10, 0, 0, "")
TsText == Stamp("text", 0, 0, 0, 0, 0, 0, "")

DaysInMonth(mo, y4) ==
    IF mo \in {4, 6, 9, 11} THEN 30
    ELSE IF mo = 2 THEN (IF y4 % 4 = 0 /\ (y4 % 100 # 0 \/ y4 % 400 = 0) THEN 29 ELSE 28)
    ELSE 31

\* %y of strptime: 69..99 are 1969..1999, 0..68 are 2000..2068
FourDigitYear(y2) == IF y2 >= 69 THEN 1900 + y2 ELSE 2000 + y2

\* datetime.strptime(raw_ts, '%m/%d/%y %H:%M:%S') succeeds
Strptime_ok(raw_ts) ==
    /\ raw_ts.fmt = "mdy24"
    /\ raw_ts.month \in 1..12
    /\ raw_ts.year \in 0..99
    /\ raw_ts.day \in 1..DaysInMonth(raw_ts.month, FourDigitYear(raw_ts.year))
    /\ raw_ts.hour \in 0..23
    /\ raw_ts.minute \in 0..59
    /\ raw_ts.second \in 0..61

\* dt.strftime('%d-%m-%Y %I:%M:%S %p')
Strftime(raw_ts) ==
    Stamp("dmy12", raw_ts.month, raw_ts.day, FourDigitYear(raw_ts.year),
          IF raw_ts.hour % 12 = 0 THEN 12 ELSE raw_ts.hour % 12,
          raw_ts.minute, raw_ts.second,
          IF raw_ts.hour < 12 THEN "AM" ELSE "PM")

\* strptime raises TypeError, which parse_timestamp does not catch, when its
\* argument is not a string
parse_timestamp_raises(raw_ts) == raw_ts.fmt = "none"

parse_timestamp(raw_ts) ==
    IF Strptime_ok(raw_ts) THEN Strftime(raw_ts) ELSE raw_ts

\* ------------------------------------------------------------ partitioning
Min(a, b) == IF a < b THEN a ELSE b

\* the list of Python's range(start, stop, step), step # 0
RECURSIVE Range(_, _, _)
Range(start, stop, step) ==
    IF (step > 0 /\ start < stop) \/ (step < 0 /\ start > stop)
    THEN <<start>> \o Range(start + step, stop, step)
    ELSE <<>>

\* a slice that loses its last element
Slice_short(data, i, j) ==
    LET hi == Min(j - 1, Len(data))
    IN  IF hi <= i THEN <<>> ELSE [x \in 1..(hi - i) |-> data[i + x]]

\* Python's data[i:j] for 0 <= i (0-based, j exclusive, clamped to the length)
Slice(data, i, j) ==
    LET hi == Min(j, Len(data))
    IN  IF hi <= i THEN <<>> ELSE [x \in 1..(hi - i) |-> data[i + x]]

\* [self.tags[i:i+self.maxtags] for i in range(0, total_tags, self.maxtags)]
Batches(data, size) ==
    LET starts == Range(0, Len(data), size)
    IN  [x \in 1..Len(starts) |-> Slice(data, starts[x], starts[x] + size)]

\* list(chunk_list(data, chunk_size))
chunk_list(data, chunk_size) ==
    LET starts == Range(0, Len(data), chunk_size)
    IN  [x \in 1..Len(starts) |-> Slice(data, starts[x], starts[x] + chunk_size)]

\* ------------------------------------------------------------- tag file
\* A row of the tag file.  A column that the file does not have reads as
\* None in every row.
Row(tag, val, status, ts) == [Tag |-> tag, Value |-> val, Status |-> status, Timestamp |-> ts]

BlankRow(tag) == Row(tag, "None", "None", None)
OldRow(tag) == Row(tag, "old", "Good", Strftime(TsMidnight))

\* read_tags: df['Tag'].tolist()
read_tags(f) == [i \in 1..Len(f.rows) |-> f.rows[i].Tag]

\* what opc.read returns for one tag: (tag, val, status, ts_string)
Results == {
    [val |-> "v1", status |-> "Good", ts |-> TsAfternoon],
    [val |-> "v2", status |-> "Bad", ts |-> TsText],
    [val |-> "v3", status |-> "Good", ts |-> None] }

\* a loop that keeps the first result of a tag that occurs twice
RECURSIVE Populate_firstWins(_, _, _)
Populate_firstWins(map, values, from) ==
    IF from > Len(values) THEN map
    ELSE LET v == values[from]
             entry == [val |-> v.val, status |-> v.status, ts |-> parse_timestamp(v.ts)]
         IN  Populate_firstWins([t \in (DOMAIN map) \cup {v.tag} |->
                                    IF t \in DOMAIN map THEN map[t] ELSE entry],
                                values, from + 1)

\* the for loop of run over values[from..]: tag_values_map[tag] = (val, status, formatted_ts)
RECURSIVE Populate(_, _, _)
Populate(map, values, from) ==
    IF from > Len(values) THEN map
    ELSE LET v == values[from]
             entry == [val |-> v.val, status |-> v.status, ts |-> parse_timestamp(v.ts)]
         IN  Populate([t \in (DOMAIN map) \cup {v.tag} |-> IF t = v.tag THEN entry ELSE map[t]],
                      values, from + 1)

EmptyMap == [t \in {} |-> None]

\* the loop raises when parse_timestamp raises for one of the values
PopulateRaises(values) == \E i \in 1..Len(values) : parse_timestamp_raises(values[i].ts)

\* a merge that blanks the rows of the tags the map does not have
MergeRow_blanksOthers(row, tag_values_map) ==
    IF row.Tag \in DOMAIN tag_values_map
    THEN Row(row.Tag, tag_values_map[row.Tag].val, tag_values_map[row.Tag].status,
             tag_values_map[row.Tag].ts)
    ELSE Row(row.Tag, "None", "None", None)

\* a merge that blanks a row that already holds the mapped result
MergeRow_toggles(row, tag_values_map) ==
    IF row.Tag \in DOMAIN tag_values_map
    THEN IF row.Value = tag_values_map[row.Tag].val
         THEN Row(row.Tag, "None", "None", None)
         ELSE Row(row.Tag, tag_values_map[row.Tag].val, tag_values_map[row.Tag].status,
                  tag_values_map[row.Tag].ts)
    ELSE row

\* the body of write_values between reading and rewriting the file
MergeRow(row, tag_values_map) ==
    IF row.Tag \in DOMAIN tag_values_map
    THEN Row(row.Tag, tag_values_map[row.Tag].val, tag_values_map[row.Tag].status,
             tag_values_map[row.Tag].ts)
    ELSE row

write_values(f, tag_values_map) ==
    [hasCols |-> TRUE,
     rows |-> [i \in 1..Len(f.rows) |-> MergeRow(f.rows[i], tag_values_map)]]

\* ------------------------------------------------------------------ state
VARIABLES
    program,         \* which script runs: "OPCLogger" or "DVMon"
    file,            \* the tag file: [hasCols, rows]
    tags,            \* the tag list read at startup
    maxtags,         \* --maxtagsperinterval / --max_tags_per_interval
    opc,             \* OPCHandler.opc: 0 is None, k the client made for batch k
    batches, total_batches, current_batch,
    values,          \* what opc.read returned for the current batch
    tag_values_map,
    pc,              \* the call the program is at, or how it ended
    ctx,             \* which call of close_connection is running
    opc_conn, chunks, idx, chunk_values,     \* locals of DVMonOPCLogger.main
    interrupts,      \* interrupts delivered so far
    file0,           \* history: the tag file at startup
    written,         \* history: the maps write_values merged, [batch, map]
    trace            \* history: the collaborator calls made, <<call, batch>>

vars == <<program, file, tags, maxtags, opc, batches, total_batches, current_batch,
          values, tag_values_map, pc, ctx, opc_conn, chunks, idx, chunk_values,
          interrupts, file0, written, trace>>

dvVars == <<opc_conn, chunks, idx, chunk_values>>
opcVars == <<opc, batches, total_batches, current_batch, values, tag_values_map, ctx, file0, written>>

Log(call, k) == trace' = Append(trace, <<call, k>>)
Log2(call1, call2, k) == trace' = trace \o << <<call1, k>>, <<call2, k>> >>

Count(call, k) == Cardinality({i \in 1..Len(trace) : trace[i] = <<call, k>>})
Happened(call, k) == \E i \in 1..Len(trace) : trace[i] = <<call, k>>

\* the process has ended
Ended == pc \in {"done", "stopped", "failed", "aborted", "crashed"}

\* the exit status of the process: sys.exit(0) and a return of main give 0,
\* sys.exit(1) and an exception nobody catches give a non-zero status
ExitCode == IF pc \in {"done", "stopped"} THEN 0 ELSE 1

InitialFiles ==
    { [hasCols |-> hc,
       rows |-> [i \in 1..Len(tl) |-> IF hc THEN OldRow(tl[i]) ELSE BlankRow(tl[i])]]
      : tl \in TagLists, hc \in BOOLEAN }

Init ==
    /\ program \in {"OPCLogger", "DVMon"}
    /\ file \in InitialFiles
    /\ program = "DVMon" => ~file.hasCols
    /\ maxtags \in BatchSizes
    /\ tags = <<>>
    /\ opc = 0
    /\ batches = <<>>
    /\ total_batches = 0
    /\ current_batch = 0
    /\ values = <<>>
    /\ tag_values_map = EmptyMap
    /\ pc = "main"
    /\ ctx = "none"
    /\ opc_conn = 0
    /\ chunks = <<>>
    /\ idx = 0
    /\ chunk_values = EmptyMap
    /\ interrupts = 0
    /\ file0 = file
    /\ written = <<>>
    /\ trace = <<>>

\* ------------------------------------------------- OPCLogger.py: OPCHandler
\* main reads the tags and calls run, which partitions them and enters the
\* loop.  range(0, total_tags, 0) raises ValueError, which nobody catches.
StartRun ==
    /\ program = "OPCLogger"
    /\ pc = "main"
    /\ tags' = read_tags(file)
    /\ IF maxtags = 0
       THEN /\ pc' = "crashed"
            /\ UNCHANGED <<batches, total_batches, current_batch>>
       ELSE /\ batches' = Batches(tags', maxtags)
            /\ total_batches' = Len(batches')
            /\ current_batch' = 1
            /\ pc' = IF 1 <= total_batches' THEN "connect" ELSE "done"
    /\ UNCHANGED <<program, file, maxtags, opc, values, tag_values_map, ctx, interrupts,
                    file0, written, trace>>
    /\ UNCHANGED dvVars

\* a batch that keeps filling the map of the batch before it
ConnectOk_keepsMap ==
    /\ pc = "connect"
    /\ opc' = current_batch
    /\ pc' = "read"
    /\ Log("connect", current_batch)
    /\ UNCHANGED <<program, file, tags, maxtags, batches, total_batches, current_batch,
                    values, tag_values_map, ctx, interrupts>>
    /\ UNCHANGED <<file0, written>>
    /\ UNCHANGED dvVars

\* self.connect() returns; tag_values_map = {}; the read is issued next
ConnectOk ==
    /\ pc = "connect"
    /\ opc' = current_batch
    /\ tag_values_map' = EmptyMap
    /\ pc' = "read"
    /\ Log("connect", current_batch)
    /\ UNCHANGED <<program, file, tags, maxtags, batches, total_batches, current_batch,
                    values, ctx, interrupts>>
    /\ UNCHANGED <<file0, written>>
    /\ UNCHANGED dvVars

\* a connect error that is logged and swallowed
ConnectFail_swallowed ==
    /\ pc = "connect"
    /\ opc' \in {opc, current_batch}
    /\ pc' = "read"
    /\ Log2("connect", "connect_err", current_batch)
    /\ UNCHANGED <<program, file, tags, maxtags, batches, total_batches, current_batch,
                    values, tag_values_map, ctx, interrupts>>
    /\ UNCHANGED <<file0, written>>
    /\ UNCHANGED dvVars

\* OpenOPC.client() or self.opc.connect() raises: sys.exit(1) outside the try
\* of run.  self.opc is the new client only when it was client.connect that
\* raised.
ConnectFail ==
    /\ pc = "connect"
    /\ opc' \in {opc, current_batch}
    /\ pc' = "failed"
    /\ Log2("connect", "connect_err", current_batch)
    /\ UNCHANGED <<program, file, tags, maxtags, batches, total_batches, current_batch,
                    values, tag_values_map, ctx, interrupts>>
    /\ UNCHANGED <<file0, written>>
    /\ UNCHANGED dvVars

\* the prefix of values the for loop handles before parse_timestamp raises
HandledPrefix(vals) ==
    IF PopulateRaises(vals)
    THEN SubSeq(vals, 1, (CHOOSE i \in 1..Len(vals) :
                             /\ parse_timestamp_raises(vals[i].ts)
                             /\ \A j \in 1..(i - 1) : ~parse_timestamp_raises(vals[j].ts)) - 1)
    ELSE vals

\* self.opc.read(batch) returns one result per tag; the loop fills
\* tag_values_map.  An exception of the loop is caught by except Exception.
ReadOk ==
    /\ pc = "read"
    /\ \E rs \in [1..Len(batches[current_batch]) -> Results] :
          values' = [i \in 1..Len(batches[current_batch]) |->
                        [tag |-> batches[current_batch][i], val |-> rs[i].val,
                         status |-> rs[i].status, ts |-> rs[i].ts]]
    /\ tag_values_map' = Populate(tag_values_map, HandledPrefix(values'), 1)
    /\ IF PopulateRaises(values')
       THEN /\ pc' = "close"
            /\ ctx' = "finally"
            /\ Log2("read", "populate_err", current_batch)
       ELSE /\ pc' = "write"
            /\ ctx' = ctx
            /\ Log("read", current_batch)
    /\ UNCHANGED <<program, file, tags, maxtags, opc, batches, total_batches, current_batch,
                    interrupts, file0, written>>
    /\ UNCHANGED dvVars

\* a read error that goes on to the merge with the empty map
ReadFail_thenWrite ==
    /\ pc = "read"
    /\ pc' = "write"
    /\ ctx' = "finally"
    /\ Log2("read", "read_err", current_batch)
    /\ UNCHANGED <<program, file, tags, maxtags, opc, batches, total_batches, current_batch,
                    values, tag_values_map, interrupts, file0, written>>
    /\ UNCHANGED dvVars

\* self.opc.read(batch) raises: logged, then the finally clause
ReadFail ==
    /\ pc = "read"
    /\ pc' = "close"
    /\ ctx' = "finally"
    /\ Log2("read", "read_err", current_batch)
    /\ UNCHANGED <<program, file, tags, maxtags, opc, batches, total_batches, current_batch,
                    values, tag_values_map, interrupts, file0, written>>
    /\ UNCHANGED dvVars

\* KeyboardInterrupt while the read blocks: the except KeyboardInterrupt
\* clause calls close_connection
InterruptRead ==
    /\ pc = "read"
    /\ interrupts < MaxInterrupts
    /\ interrupts' = interrupts + 1
    /\ pc' = "close"
    /\ ctx' = "kbd"
    /\ Log2("read", "interrupt_read", current_batch)
    /\ UNCHANGED <<program, file, tags, maxtags, opc, batches, total_batches, current_batch,
                    values, tag_values_map, file0, written>>
    /\ UNCHANGED dvVars

\* write_values(self.filepath, tag_values_map) rewrites the file
WriteOk ==
    /\ pc = "write"
    /\ file' = write_values(file, tag_values_map)
    /\ pc' = "close"
    /\ ctx' = "finally"
    /\ written' = Append(written, [batch |-> current_batch, map |-> tag_values_map])
    /\ Log("write", current_batch)
    /\ UNCHANGED <<program, tags, maxtags, opc, batches, total_batches, current_batch,
                    values, tag_values_map, interrupts, file0>>
    /\ UNCHANGED dvVars

\* a write error that ends the run
WriteFail_aborts ==
    /\ pc = "write"
    /\ pc' = "crashed"
    /\ ctx' = "finally"
    /\ Log2("write", "write_err", current_batch)
    /\ UNCHANGED <<program, file, tags, maxtags, opc, batches, total_batches, current_batch,
                    values, tag_values_map, interrupts, file0, written>>
    /\ UNCHANGED dvVars

\* write_values raises ValueError (the file cannot be read or rewritten)
WriteFail ==
    /\ pc = "write"
    /\ pc' = "close"
    /\ ctx' = "finally"
    /\ Log2("write", "write_err", current_batch)
    /\ UNCHANGED <<program, file, tags, maxtags, opc, batches, total_batches, current_batch,
                    values, tag_values_map, interrupts, file0, written>>
    /\ UNCHANGED dvVars

\* what follows the return of close_connection, by the place of the call:
\* the finally clause of a batch that was not interrupted goes on to the
\* inter-batch sleep or to the next turn of the loop; the call in
\* except KeyboardInterrupt is followed by sys.exit(0), whose SystemExit runs
\* the finally clause; the finally clause then lets the pending exception go.
AfterClose ==
    CASE ctx = "finally" ->
            IF current_batch < total_batches
            THEN /\ pc' = "wait"
                 /\ UNCHANGED <<ctx, current_batch>>
            ELSE /\ pc' = IF current_batch + 1 <= total_batches THEN "connect" ELSE "done"
                 /\ current_batch' = current_batch + 1
                 /\ UNCHANGED ctx
      [] ctx = "kbd" ->
            /\ pc' = "close"
            /\ ctx' = "kbdFinally"
            /\ UNCHANGED current_batch
      [] ctx = "kbdFinally" ->
            /\ pc' = "stopped"
            /\ UNCHANGED <<ctx, current_batch>>
      [] OTHER ->
            /\ pc' = "aborted"
            /\ UNCHANGED <<ctx, current_batch>>

\* close_connection up to the sleep: self.opc.close() returns (or self.opc is
\* None and it is not called), the handle is dropped
CloseOk ==
    /\ pc = "close"
    /\ opc' = 0
    /\ pc' = "settle"
    /\ IF opc # 0 THEN Log2("close", "settle", current_batch) ELSE Log("settle", current_batch)
    /\ UNCHANGED <<program, file, tags, maxtags, batches, total_batches, current_batch,
                    values, tag_values_map, ctx, interrupts, file0, written>>
    /\ UNCHANGED dvVars

\* self.opc.close() raises: the except clause of close_connection logs it,
\* and the del, the gc and the sleep are skipped
CloseFail ==
    /\ pc = "close"
    /\ opc # 0
    /\ Log2("close", "close_err", current_batch)
    /\ AfterClose
    /\ UNCHANGED <<program, file, tags, maxtags, opc, batches, total_batches,
                    values, tag_values_map, interrupts, file0, written>>
    /\ UNCHANGED dvVars

\* time.sleep(self.disconnect_wait_time) returns
SettleDone ==
    /\ pc = "settle"
    /\ AfterClose
    /\ UNCHANGED <<program, file, tags, maxtags, opc, batches, total_batches,
                    values, tag_values_map, interrupts, file0, written, trace>>
    /\ UNCHANGED dvVars

\* KeyboardInterrupt in time.sleep(self.disconnect_wait_time): except Exception
\* of close_connection does not catch it.  Raised by the call in
\* except KeyboardInterrupt it runs the finally clause first; everywhere
\* else it leaves run and nobody catches it.
InterruptSettle ==
    /\ pc = "settle"
    /\ interrupts < MaxInterrupts
    /\ interrupts' = interrupts + 1
    /\ Log("interrupt_settle", current_batch)
    /\ IF ctx = "kbd"
       THEN /\ pc' = "close"
            /\ ctx' = "abortFinally"
       ELSE /\ pc' = "aborted"
            /\ ctx' = ctx
    /\ UNCHANGED <<program, file, tags, maxtags, opc, batches, total_batches, current_batch,
                    values, tag_values_map, file0, written>>
    /\ UNCHANGED dvVars

\* an inter-batch sleep after which the loop skips a batch
WaitDone_skips ==
    /\ pc = "wait"
    /\ current_batch' = current_batch + 2
    /\ pc' = IF current_batch' <= total_batches THEN "connect" ELSE "done"
    /\ Log("wait", current_batch)
    /\ UNCHANGED <<program, file, tags, maxtags, opc, batches, total_batches,
                    values, tag_values_map, ctx, interrupts, file0, written>>
    /\ UNCHANGED dvVars

\* time.sleep(self.interval) returns; current_batch += 1
WaitDone ==
    /\ pc = "wait"
    /\ current_batch' = current_batch + 1
    /\ pc' = IF current_batch' <= total_batches THEN "connect" ELSE "done"
    /\ Log("wait", current_batch)
    /\ UNCHANGED <<program, file, tags, maxtags, opc, batches, total_batches,
                    values, tag_values_map, ctx, interrupts, file0, written>>
    /\ UNCHANGED dvVars

\* KeyboardInterrupt in time.sleep(self.interval): sys.exit(0)
InterruptWait ==
    /\ pc = "wait"
    /\ interrupts < MaxInterrupts
    /\ interrupts' = interrupts + 1
    /\ pc' = "stopped"
    /\ Log2("wait", "interrupt_wait", current_batch)
    /\ UNCHANGED <<program, file, tags, maxtags, opc, batches, total_batches, current_batch,
                    values, tag_values_map, ctx, file0, written>>
    /\ UNCHANGED dvVars

\* --------------------------------------------------- DVMonOPCLogger.py: main
\* the for statement asks the generator chunk_list for the next chunk: range
\* raises ValueError for a chunk size of 0, which nobody catches; without a
\* next chunk the loop ends and the session is closed
NextChunk ==
    IF maxtags = 0
    THEN /\ pc' = "crashed"
         /\ UNCHANGED <<chunks, idx>>
    ELSE /\ chunks' = chunk_list(tags, maxtags)
         /\ IF idx + 1 <= Len(chunks')
            THEN /\ idx' = idx + 1
                 /\ pc' = "dv_read"
            ELSE /\ idx' = idx
                 /\ pc' = "dv_close"

\* main up to connect_to_opc_server: without tags it warns and exits 1
DVStart ==
    /\ program = "DVMon"
    /\ pc = "main"
    /\ tags' = read_tags(file)
    /\ pc' = IF tags' = <<>> THEN "failed" ELSE "dv_connect"
    /\ UNCHANGED <<program, file, maxtags, interrupts, trace>>
    /\ UNCHANGED dvVars
    /\ UNCHANGED opcVars

\* connect_to_opc_server returns the client; the loop asks for the first chunk
DVConnectOk ==
    /\ pc = "dv_connect"
    /\ opc_conn' = 1
    /\ Log("connect", 0)
    /\ NextChunk
    /\ UNCHANGED <<program, file, tags, maxtags, chunk_values, interrupts>>
    /\ UNCHANGED opcVars

\* connect_to_opc_server returns None: sys.exit(1)
DVConnectFail ==
    /\ pc = "dv_connect"
    /\ pc' = "failed"
    /\ Log2("connect", "connect_err", 0)
    /\ UNCHANGED <<program, file, tags, maxtags, interrupts>>
    /\ UNCHANGED dvVars
    /\ UNCHANGED opcVars

\* a loop that also sleeps after a last chunk that is full
AfterChunk_le ==
    IF idx * maxtags <= Len(tags)
    THEN /\ pc' = "dv_wait"
         /\ UNCHANGED <<chunks, idx>>
    ELSE NextChunk

\* the end of the loop body: sleep when idx * max_tags < len(tags), else the
\* loop asks for the next chunk
AfterChunk ==
    IF idx * maxtags < Len(tags)
    THEN /\ pc' = "dv_wait"
         /\ UNCHANGED <<chunks, idx>>
    ELSE NextChunk

\* the dict read_values_from_opc builds: values[tag] = value
RECURSIVE ValuesOf(_, _, _)
ValuesOf(map, read_result, from) ==
    IF from > Len(read_result) THEN map
    ELSE LET item == read_result[from]
         IN  ValuesOf([t \in (DOMAIN map) \cup {item.tag} |->
                          IF t = item.tag THEN item.val ELSE map[t]],
                      read_result, from + 1)

\* read_values_from_opc returns the values of the chunk
DVReadOk ==
    /\ pc = "dv_read"
    /\ \E rs \in [1..Len(chunks[idx]) -> Results] :
          chunk_values' = ValuesOf([t \in {} |-> ""],
                                   [i \in 1..Len(chunks[idx]) |->
                                       [tag |-> chunks[idx][i], val |-> rs[i].val]], 1)
    /\ Log("read", idx)
    /\ AfterChunk
    /\ UNCHANGED <<program, file, tags, maxtags, opc_conn, interrupts>>
    /\ UNCHANGED opcVars

\* opc_connection.read raises: read_values_from_opc logs it and returns {}
DVReadFail ==
    /\ pc = "dv_read"
    /\ chunk_values' = [t \in {} |-> ""]
    /\ Log2("read", "read_err", idx)
    /\ AfterChunk
    /\ UNCHANGED <<program, file, tags, maxtags, opc_conn, interrupts>>
    /\ UNCHANGED opcVars

\* time.sleep(interval) returns
DVWaitDone ==
    /\ pc = "dv_wait"
    /\ Log("wait", idx)
    /\ NextChunk
    /\ UNCHANGED <<program, file, tags, maxtags, opc_conn, chunk_values, interrupts>>
    /\ UNCHANGED opcVars

\* KeyboardInterrupt in the read or in the sleep: main has no handler
DVInterrupt ==
    /\ pc \in {"dv_read", "dv_wait"}
    /\ interrupts < MaxInterrupts
    /\ interrupts' = interrupts + 1
    /\ pc' = "aborted"
    /\ IF pc = "dv_read" THEN Log2("read", "interrupt_read", idx)
                         ELSE Log2("wait", "interrupt_wait", idx)
    /\ UNCHANGED <<program, file, tags, maxtags>>
    /\ UNCHANGED dvVars
    /\ UNCHANGED opcVars

\* opc_conn.close() returns and main ends
DVCloseOk ==
    /\ pc = "dv_close"
    /\ pc' = "done"
    /\ Log("close", 0)
    /\ UNCHANGED <<program, file, tags, maxtags, interrupts>>
    /\ UNCHANGED dvVars
    /\ UNCHANGED opcVars

\* opc_conn.close() raises: nobody catches it
DVCloseFail ==
    /\ pc = "dv_close"
    /\ pc' = "crashed"
    /\ Log2("close", "close_err", 0)
    /\ UNCHANGED <<program, file, tags, maxtags, interrupts>>
    /\ UNCHANGED dvVars
    /\ UNCHANGED opcVars

\* ---------------------------------------------------------- specification
Next ==
    \/ StartRun
    \/ ConnectOk
    \/ ConnectFail
    \/ ReadOk
    \/ ReadFail
    \/ InterruptRead
    \/ WriteOk
    \/ WriteFail
    \/ CloseOk
    \/ CloseFail
    \/ SettleDone
    \/ InterruptSettle
    \/ WaitDone
    \/ InterruptWait
    \/ DVStart
    \/ DVConnectOk
    \/ DVConnectFail
    \/ DVReadOk
    \/ DVReadFail
    \/ DVWaitDone
    \/ DVInterrupt
    \/ DVCloseOk
    \/ DVCloseFail

Spec == Init /\ [][Next]_vars

\* The program is sequential and every call it makes returns, raises or is
\* interrupted: a step that can be taken is taken.
FairSpec == Spec /\ WF_vars(Next)

TypeOK ==
    /\ program \in {"OPCLogger", "DVMon"}
    /\ maxtags \in BatchSizes
    /\ tags \in TagLists
    /\ opc \in 0..MaxLen
    /\ pc \in {"main", "connect", "read", "write", "close", "settle", "wait",
               "dv_connect", "dv_read", "dv_wait", "dv_close",
               "done", "stopped", "failed", "aborted", "crashed"}
    /\ ctx \in {"none", "finally", "kbd", "kbdFinally", "abortFinally"}
    /\ interrupts \in 0..MaxInterrupts

\* ------------------------------------------------------------- properties
\* the file after the first n merges of the history
RECURSIVE Merged(_)
Merged(n) == IF n = 0 THEN file0 ELSE write_values(Merged(n - 1), written[n].map)

BatchIds == 1..total_batches

LastCall == IF trace = <<>> THEN <<"none", 0>> ELSE trace[Len(trace)]

\* C1: when the read of batch k raises, write_values is not called for batch k
\* and the file stays as the earlier merges left it, the read of batch k is
\* not issued again, and a run that no interrupt ends goes on to connect
\* batch k+1 with a new client.
C1_ReadErrorSkipsBatch ==
    program = "OPCLogger" =>
        \A k \in BatchIds :
            Happened("read_err", k) =>
                /\ Count("write", k) = 0
                /\ \A i \in 1..Len(written) : written[i].batch # k
                /\ file = Merged(Len(written))
                /\ Count("read", k) = 1
                /\ (k < total_batches /\ Ended /\ interrupts = 0) => Count("connect", k + 1) = 1
                /\ (k < total_batches /\ current_batch = k + 1 /\ pc = "read") => opc = k + 1

C1_Witness ==
    /\ program = "OPCLogger"
    /\ Happened("read_err", 1)
    /\ Happened("connect", 2)
    /\ pc = "read"
    /\ file0.hasCols
    /\ file = file0

\* C2: a connect failure for batch k ends the process with a non-zero status;
\* neither a read nor write_values is called for batch k or a later batch, and
\* the file is what the merges of batches 1..k-1 left.  When the first connect
\* fails write_values is never called.
C2_ConnectFailureFatal ==
    program = "OPCLogger" =>
        \A k \in BatchIds :
            Happened("connect_err", k) =>
                /\ pc = "failed"
                /\ ExitCode # 0
                /\ \A j \in k..total_batches : Count("read", j) = 0 /\ Count("write", j) = 0
                /\ \A j \in (k + 1)..total_batches : Count("connect", j) = 0
                /\ \A i \in 1..Len(written) : written[i].batch < k
                /\ file = Merged(Len(written))
                /\ k = 1 => (file = file0 /\ \A i \in 1..Len(trace) : trace[i][1] # "write")

C2_Witness ==
    /\ program = "OPCLogger"
    /\ Happened("connect_err", 2)
    /\ Len(written) = 1
    /\ file # file0
    /\ total_batches = 3

\* the first and the last place of a call in the history (0: never made)
First(call, k) ==
    IF Happened(call, k) THEN CHOOSE i \in 1..Len(trace) :
                                  trace[i] = <<call, k>> /\ \A j \in 1..(i - 1) : trace[j] # <<call, k>>
    ELSE 0

Last(call, k) ==
    IF Happened(call, k) THEN CHOOSE i \in 1..Len(trace) :
                                  trace[i] = <<call, k>> /\ \A j \in (i + 1)..Len(trace) : trace[j] # <<call, k>>
    ELSE 0

Interrupted(place) == \E i \in 1..Len(trace) : trace[i][1] = place

\* C3: an interrupt delivered in the blocking read, in the settle sleep or in
\* the inter-batch sleep ends the process with exit code 0 after the orderly
\* shutdown (the close of the current session was called unless the handle
\* was None); the interrupt never leaves run uncaught.
C3_InterruptIsOrderly ==
    (program = "OPCLogger" /\ Ended /\ interrupts > 0) =>
        /\ pc = "stopped"
        /\ ExitCode = 0
        /\ Count("close", current_batch) >= 1

\* C4: for every batch of OPCHandler.run that was started, connect is called
\* exactly once and the close of the session at most once, whatever fails and
\* wherever the operator interrupts.
C4_OneOpenAtMostOneClose ==
    program = "OPCLogger" =>
        \A k \in BatchIds :
            /\ Count("connect", k) <= 1
            /\ (k < current_batch \/ (k = current_batch /\ pc # "connect")) => Count("connect", k) = 1
            /\ Count("close", k) <= 1

\* the part of C4 that the code keeps: one connect per batch
C4_OneOpen ==
    program = "OPCLogger" =>
        \A k \in BatchIds :
            /\ Count("connect", k) <= 1
            /\ (k < current_batch \/ (k = current_batch /\ pc # "connect")) => Count("connect", k) = 1

Ceil(n, b) == (n + b - 1) \div b

RECURSIVE Concat(_)
Concat(ss) == IF ss = <<>> THEN <<>> ELSE Concat(SubSeq(ss, 1, Len(ss) - 1)) \o ss[Len(ss)]

Partitions(parts, data, size) ==
    /\ Len(parts) = Ceil(Len(data), size)
    /\ \A x \in 1..Len(parts) :
          /\ parts[x] # <<>>
          /\ Len(parts[x]) <= size
          /\ x < Len(parts) => Len(parts[x]) = size
    /\ Concat(parts) = data

\* C5: for a batch size B > 0 the tag list of length N is split into
\* ceil(N/B) batches, each of length B but the last, which is not empty and
\* not longer than B, and the batches in order concatenate to the tag list.
\* This holds of the comprehension of OPCHandler.run and of chunk_list.
C5_Partition ==
    (maxtags > 0 /\ pc # "main") =>
        /\ program = "OPCLogger" => Partitions(batches, tags, maxtags)
        /\ (program = "DVMon" /\ pc \notin {"dv_connect", "failed"}) =>
              Partitions(chunks, tags, maxtags)

C5_Witness ==
    /\ program = "OPCLogger"
    /\ maxtags = 2
    /\ tags = <<"A", "B", "A">>
    /\ batches = << <<"A", "B">>, <<"A">> >>
    /\ pc = "done"

C5_WitnessChunks ==
    /\ program = "DVMon"
    /\ maxtags = 2
    /\ Len(tags) = 3
    /\ Len(chunks) = 2
    /\ pc = "done"

\* C6: a call of write_values that returns changes the rows whose Tag is a key
\* of the map to the mapped result and nothing else: the other rows keep
\* Value, Status and Timestamp (None when the file had no such columns), the
\* number and the order of the rows and every Tag stay.
C6_MergeFrame ==
    [][ written' # written =>
          /\ Len(file'.rows) = Len(file.rows)
          /\ \A i \in 1..Len(file.rows) :
                /\ file'.rows[i].Tag = file.rows[i].Tag
                /\ IF file.rows[i].Tag \in DOMAIN tag_values_map
                   THEN /\ file'.rows[i].Value = tag_values_map[file.rows[i].Tag].val
                        /\ file'.rows[i].Status = tag_values_map[file.rows[i].Tag].status
                        /\ file'.rows[i].Timestamp = tag_values_map[file.rows[i].Tag].ts
                   ELSE /\ file'.rows[i] = file.rows[i]
                        /\ ~file.hasCols => file'.rows[i] = BlankRow(file.rows[i].Tag) ]_vars

C6_Witness ==
    /\ LastCall = <<"write", current_batch>>
    /\ Len(written) = 1
    /\ file0.hasCols
    /\ \E i, j \in 1..Len(file.rows) :
          /\ file.rows[i].Tag \in DOMAIN tag_values_map
          /\ file.rows[i].Value = tag_values_map[file.rows[i].Tag].val
          /\ file.rows[j].Tag \notin DOMAIN tag_values_map
          /\ file.rows[j] = OldRow(file.rows[j].Tag)

\* no connect failed and no interrupt was delivered
OnlyBatchFailures ==
    /\ interrupts = 0
    /\ \A i \in 1..Len(trace) : trace[i][1] # "connect_err"

\* C7: an error of write_values or of the close of batch k does not end
\* OPCHandler.run: after a write error the close of batch k is still called,
\* and a run with a batch size B # 0 in which nothing but reads, writes and
\* closes fail ends having connected every batch, with "All batches
\* processed" and exit code 0.
C7_BatchFailuresSwallowed ==
    program = "OPCLogger" =>
        /\ \A k \in BatchIds :
              (Happened("write_err", k) /\ ~(current_batch = k /\ pc = "close"))
                  => Last("close", k) > First("write_err", k)
        /\ (Ended /\ OnlyBatchFailures /\ maxtags # 0) =>
              /\ pc = "done"
              /\ ExitCode = 0
              /\ \A k \in BatchIds : Count("connect", k) = 1 /\ Count("read", k) = 1

C7_Witness ==
    /\ program = "OPCLogger"
    /\ pc = "done"
    /\ total_batches = 3
    /\ Happened("write_err", 1)
    /\ Happened("close_err", 2)
    /\ Happened("read_err", 3)
    /\ interrupts = 0

\* C8: an interrupt in the inter-batch sleep after batch k ends the process
\* with exit code 0 and no session open (the handle is None); no later batch
\* is connected or read, and the file is as the merges of batches 1..k left it.
C8_InterruptInWait ==
    (program = "OPCLogger" /\ Happened("interrupt_wait", current_batch)) =>
        /\ pc = "stopped"
        /\ ExitCode = 0
        /\ opc = 0
        /\ \A j \in (current_batch + 1)..total_batches :
              Count("connect", j) = 0 /\ Count("read", j) = 0
        /\ file = Merged(Len(written))
        /\ \A i \in 1..Len(written) : written[i].batch <= current_batch

\* the number of waits of the history, and their places
Waits == {i \in 1..Len(trace) : trace[i][1] = "wait"}
Reads == {i \in 1..Len(trace) : trace[i][1] = "read"}

\* the loop has handled every batch
LoopOver ==
    \/ pc = "done"
    \/ program = "DVMon" /\ pc = "dv_close"
    \/ program = "DVMon" /\ pc = "crashed" /\ maxtags # 0

\* C9: a run with B > 0 and k >= 1 batches that no interrupt and no connect
\* failure ends makes k reads and k-1 inter-batch sleeps: one sleep between
\* the reads of batches j and j+1 for every j < k, and none after batch k.
\* This holds of OPCHandler.run and of DVMonOPCLogger.main.
C9_ReadsAndWaits ==
    (LoopOver /\ maxtags > 0 /\ tags # <<>>) =>
        LET k == Ceil(Len(tags), maxtags)
        IN  /\ Cardinality(Reads) = k
            /\ Cardinality(Waits) = k - 1
            /\ \A j \in 1..k : Count("read", j) = 1
            /\ \A j \in 1..(k - 1) :
                  /\ Count("wait", j) = 1
                  /\ First("read", j) < First("wait", j)
                  /\ First("wait", j) < First("read", j + 1)
            /\ Count("wait", k) = 0

C9_Witness ==
    /\ program = "OPCLogger"
    /\ pc = "done"
    /\ Len(tags) = 3
    /\ maxtags = 2
    /\ trace = << <<"connect", 1>>, <<"read", 1>>, <<"write", 1>>, <<"close", 1>>,
                  <<"settle", 1>>, <<"wait", 1>>, <<"connect", 2>>, <<"read", 2>>,
                  <<"write", 2>>, <<"close", 2>>, <<"settle", 2>> >>

\* C10: for every batch whose close was called, returning or raising, the
\* settle sleep is made after that call and before the next connect.
C10_SettleAfterEveryClose ==
    program = "OPCLogger" =>
        \A k \in BatchIds :
            (Happened("close", k) /\ Happened("connect", k + 1)) =>
                /\ First("close", k) < Last("settle", k)
                /\ Last("settle", k) < First("connect", k + 1)

\* C11: with an empty tag list (a tag file of zero rows) the process ends
\* with a non-zero status and never calls connect.  Stated for the batch
\* sizes B > 0, which are not themselves an error.
C11_EmptyTagListFails ==
    (pc # "main" /\ tags = <<>> /\ maxtags > 0) =>
        /\ trace = <<>>
        /\ Ended
        /\ ExitCode # 0

\* C12: with a batch size <= 0 the run ends with a non-zero status before any
\* call to the server or to write_values.  Stated for the tag lists that are
\* not empty, which are not themselves an error.
C12_BadBatchSizeFails ==
    (pc # "main" /\ maxtags <= 0 /\ tags # <<>>) =>
        /\ trace = <<>>
        /\ Ended
        /\ ExitCode # 0

\* merging map into f twice gives what merging it once gives
MergesOnce(f, map) == write_values(write_values(f, map), map) = write_values(f, map)

ProcessedInOrder ==
    /\ total_batches = Ceil(Len(tags), maxtags)
    /\ \A k \in BatchIds : Count("connect", k) = 1 /\ Count("read", k) = 1
    /\ \A i, j \in 1..Len(trace) : i < j => trace[i][2] <= trace[j][2]
    /\ \A i \in 1..Len(trace) : trace[i][2] \in BatchIds

\* C14: a run of OPCHandler.run with B > 0 that no interrupt ends terminates:
\* in failed (non-zero exit) after a connect error, or in done (exit code 0)
\* after every batch 1..k was processed once, in increasing order.
C14_Terminates ==
    /\ (program = "OPCLogger" /\ maxtags > 0) => <>(interrupts > 0 \/ pc \in {"failed", "done"})
    /\ []((program = "OPCLogger" /\ maxtags > 0 /\ interrupts = 0) =>
            /\ pc \notin {"stopped", "aborted", "crashed"}
            /\ pc = "failed" => (ExitCode # 0 /\ LastCall = <<"connect_err", current_batch>>)
            /\ pc = "done" => (ExitCode = 0 /\ ProcessedInOrder))

C14_Witness ==
    /\ program = "OPCLogger"
    /\ pc = "done"
    /\ interrupts = 0
    /\ total_batches = 3
    /\ Happened("read_err", 2)
    /\ Happened("close_err", 1)

\* the order of the calls of a batch: connect, read, write_values, close,
\* settle sleep, inter-batch sleep
C15_Order ==
    program = "OPCLogger" =>
        /\ pc = "read" =>
              /\ opc = current_batch
              /\ Count("connect", current_batch) = 1
              /\ ~Happened("connect_err", current_batch)
              /\ Count("close", current_batch) = 0
              /\ Count("read", current_batch) = 0
        /\ pc = "write" =>
              /\ opc = current_batch
              /\ LastCall = <<"read", current_batch>>
              /\ Count("close", current_batch) = 0
        /\ \A k \in BatchIds :
              /\ Count("read", k) <= 1
              /\ Happened("read", k) => First("connect", k) < First("read", k)
              /\ Happened("write", k) =>
                    /\ First("read", k) < First("write", k)
                    /\ ~Happened("read_err", k)
                    /\ ~Happened("populate_err", k)
              /\ Happened("close", k) =>
                    /\ Last("read", k) < First("close", k)
                    /\ Last("write", k) < First("close", k)
              /\ Happened("wait", k) => Last("close", k) < First("wait", k)

\* C15: the calls of each batch are made in the order connect, read,
\* write_values, close, sleep: a read only on a session that was connected and
\* not closed, write_values only after the read of the batch returned and
\* before the close, at most one read per session; and the process ends with
\* a non-zero status only after a configuration error or a connect error.
C15_BatchOrder ==
    program = "OPCLogger" =>
        /\ C15_Order
        /\ (Ended /\ ExitCode # 0) =>
              \/ maxtags = 0
              \/ LastCall = <<"connect_err", current_batch>>

\* C16: whenever run is about to connect a batch and whenever it is in the
\* inter-batch sleep, self.opc is None: the handle of the previous batch was
\* dropped, whatever its read, write and close did.
C16_HandleDiscarded ==
    (program = "OPCLogger" /\ pc \in {"connect", "wait"}) => opc = 0

\* map holds, for the tags of vals and for no other tag, the normalized last
\* result of the tag in vals, and vals has one result per tag of batch
MapIsResultOf(map, vals, batch) ==
    /\ Len(vals) = Len(batch)
    /\ \A i \in 1..Len(vals) : vals[i].tag = batch[i]
    /\ DOMAIN map = {vals[i].tag : i \in 1..Len(vals)}
    /\ \A i \in 1..Len(vals) :
          (\A j \in (i + 1)..Len(vals) : vals[j].tag # vals[i].tag) =>
              map[vals[i].tag] = [val |-> vals[i].val, status |-> vals[i].status,
                                  ts |-> parse_timestamp(vals[i].ts)]

\* C17: the map handed to write_values for batch k is built from empty out of
\* the results of the read of batch k: it has an entry for the tags of batch k
\* and for no other, whatever the earlier batches read or wrote.
C17_FreshMap ==
    program = "OPCLogger" =>
        /\ pc = "write" => MapIsResultOf(tag_values_map, values, batches[current_batch])
        /\ LastCall = <<"write", current_batch>> =>
              /\ written[Len(written)] = [batch |-> current_batch, map |-> tag_values_map]
              /\ MapIsResultOf(tag_values_map, values, batches[current_batch])
        /\ \A i \in 1..Len(written) :
              DOMAIN written[i].map =
                  {batches[written[i].batch][x] : x \in 1..Len(batches[written[i].batch])}

C17_Witness ==
    /\ program = "OPCLogger"
    /\ pc = "write"
    /\ current_batch = 3
    /\ batches = << <<"A">>, <<"B">>, <<"A">> >>
    /\ Happened("write_err", 1)
    /\ Happened("read_err", 2)
    /\ DOMAIN tag_values_map = {"A"}
    /\ tag_values_map["A"].val = "v2"

\* the number of chunks of the run (no chunk for a size <= 0)
ChunkCount == IF maxtags > 0 THEN Ceil(Len(tags), maxtags) ELSE 0

\* C18: a run of DVMonOPCLogger.main with tags that no interrupt ends and
\* whose connect succeeded opens one session, before the first read; reads
\* every chunk once on that session, in chunk order, going on after a read
\* that raised (whose result is the empty dict); and closes the session once,
\* after the last read.
C18_PersistentSession ==
    (program = "DVMon" /\ interrupts = 0 /\ tags # <<>>
        /\ Happened("connect", 0) /\ ~Happened("connect_err", 0)) =>
        /\ Count("connect", 0) = 1
        /\ trace[1] = <<"connect", 0>>
        /\ opc_conn = 1
        /\ \A j \in 1..ChunkCount : Count("read", j) <= 1
        /\ \A i, j \in Reads : i < j => trace[i][2] < trace[j][2]
        /\ LastCall = <<"read_err", idx>> => chunk_values = [t \in {} |-> ""]
        /\ \A j \in 1..(idx - 1) : Count("read", j) = 1
        /\ Count("close", 0) <= 1
        /\ Happened("close", 0) => \A i \in Reads : i < First("close", 0)
        /\ Ended =>
              /\ Count("close", 0) = 1
              /\ \A j \in 1..ChunkCount : Count("read", j) = 1

\* the same for the batch sizes B > 0
C18_PositiveBatch == maxtags > 0 => C18_PersistentSession

\* C19: parse_timestamp raises for no timestamp of a read result and returns
\* the display form or its argument, so the read of batch k that returned is
\* followed by the write_values call with all the results of batch k.
C19_TimestampNeverBlocks ==
    program = "OPCLogger" =>
        /\ \A i \in 1..Len(values) :
              /\ ~parse_timestamp_raises(values[i].ts)
              /\ \/ parse_timestamp(values[i].ts) = values[i].ts
                 \/ parse_timestamp(values[i].ts).fmt = "dmy12"
        /\ \A k \in BatchIds :
              (Happened("read", k) /\ ~Happened("read_err", k) /\ ~Happened("interrupt_read", k)) =>
                  /\ ~Happened("populate_err", k)
                  /\ (current_batch = k /\ pc = "write") \/ Count("write", k) = 1

\* every connect, read and write of the run succeeded and no interrupt came
AllSucceeded ==
    /\ program = "OPCLogger"
    /\ pc = "done"
    /\ maxtags > 0
    /\ interrupts = 0
    /\ \A k \in BatchIds : Count("write", k) = 1
    /\ \A i \in 1..Len(trace) :
          trace[i][1] \notin {"connect_err", "read_err", "populate_err", "write_err"}

TagsOf(batch) == {batch[x] : x \in 1..Len(batch)}

\* the last batch that has the tag
LastBatchWith(tag) ==
    CHOOSE k \in BatchIds :
        /\ tag \in TagsOf(batches[k])
        /\ \A j \in (k + 1)..total_batches : tag \notin TagsOf(batches[j])

\* the row that the normalized result v of a read gives
RowOfResult(v) == Row(v.tag, v.val, v.status, parse_timestamp(v.ts))

\* C20: after a run of OPCHandler.run in which every connect, read and write
\* succeeded, every row whose Tag is in the tag list holds the result of the
\* last batch that has the tag (of the last result of the tag in that batch),
\* so all the rows of a tag hold the same result; a row whose Tag is not in
\* the tag list is as it was at startup.
C20_FinalStore ==
    AllSucceeded =>
        /\ Len(file.rows) = Len(file0.rows)
        /\ Len(written) = total_batches
        /\ \A i \in 1..Len(file.rows) :
              LET tag == file.rows[i].Tag
              IN  /\ tag = file0.rows[i].Tag
                  /\ tag \notin TagsOf(tags) => file.rows[i] = file0.rows[i]
                  /\ tag \in TagsOf(tags) =>
                        LET k == LastBatchWith(tag)
                            entry == written[k].map[tag]
                        IN  /\ written[k].batch = k
                            /\ file.rows[i] = Row(tag, entry.val, entry.status, entry.ts)
                            /\ k = total_batches =>
                                  \E x \in 1..Len(values) :
                                      /\ values[x].tag = tag
                                      /\ \A y \in (x + 1)..Len(values) : values[y].tag # tag
                                      /\ file.rows[i] = RowOfResult(values[x])
        /\ \A i, j \in 1..Len(file.rows) :
              file.rows[i].Tag = file.rows[j].Tag => file.rows[i] = file.rows[j]

C20_Witness ==
    /\ AllSucceeded
    /\ tags = <<"A", "A", "A">>
    /\ maxtags = 2
    /\ written[1].map["A"].val = "v1"
    /\ written[2].map["A"].val = "v2"
    /\ values[1].val = "v2"
    /\ \A i \in 1..3 : file.rows[i].Value = "v2"
    /\ file0.hasCols

====
